---- MODULE Spec2Model ----
(***************************************************************************)
(* A model of the SuperCompose viewer (gui_rot.py): the superquadric mesh  *)
(* generator, the in-memory list of superquadrics with its Add / Save /    *)
(* Visualize buttons, and the objects.json file the Save button appends    *)
(* to.                                                                     *)
(*                                                                         *)
(* Numbers.  A Python float held by a widget or written to JSON is a       *)
(* decimal  m * 10^-e  kept in lowest terms (the text repr() prints), so   *)
(* that equality of two model values is equality of the two doubles.  The  *)
(* trigonometry and the powers of the generator are computed in fixed      *)
(* point with Scale units per 1.0; angles are in the same units.           *)
(***************************************************************************)
EXTENDS Integers, Sequences, FiniteSets, TLC

VARIABLES
    sqs,           \* AppWindow.sqs: the list of Superquadric objects
    panels,        \* the "SQn" panels added to stored_superquadrics
    textbox,       \* AppWindow.textbox.text_value
    objects_json,  \* the file OUTPUT_JSON on disk
    scene,         \* the geometries of self._scene.scene, in insertion order
    generated,     \* the widget values read for each generate_superquadric_mesh
                   \* call of the latest visualize_superquadrics
    raised,        \* the exception the latest handler ended with ("" = none)
    nedits,        \* number of widget edits made so far
    nsaves,        \* number of Save clicks so far
    initial_json,  \* history: objects_json as the program found it at start
    save_log,      \* history: description and list at each completed save_object
    mesh_args,     \* arguments of a stand-alone generate_superquadric_mesh call
    mesh_out,      \* what that call returned
    settings,      \* AppWindow.settings: the Settings object
    material_widgets,  \* what the material rows of the settings panel show
    last_callback, \* history: the latest completed settings callback and the
                   \* materials it handed to scene.update_material
    last_load      \* history: what the load(path) call that made the present
                   \* scene found, if a load made it

settings_vars == <<settings, material_widgets, last_callback>>

app_vars == <<sqs, panels, textbox, objects_json, scene, generated, raised, nedits, nsaves,
              initial_json, save_log, settings, material_widgets, last_callback,
              last_load>>
vars == <<sqs, panels, textbox, objects_json, scene, generated, raised, nedits, nsaves,
          initial_json, save_log, mesh_args, mesh_out,
          settings, material_widgets, last_callback, last_load>>

(***************************************************************************)
(* Bounds of the model.                                                    *)
(***************************************************************************)
MaxRes == 6      \* largest num_points tried on the stand-alone generator
MaxEdits == 1    \* widget edits per run
MaxSaves == 2    \* Save clicks per run
MaxSqs == 3      \* Add is disabled once the list holds this many entries

(***************************************************************************)
(* Python floats as decimals m * 10^-e.                                    *)
(***************************************************************************)
RECURSIVE Norm(_)
Norm(d) ==
    IF d.m = 0 THEN [m |-> 0, e |-> 0]
    ELSE IF d.e > 0 /\ d.m % 10 = 0 THEN Norm([m |-> d.m \div 10, e |-> d.e - 1])
    ELSE d

Dec(m, e) == Norm([m |-> m, e |-> e])

Abs(v) == IF v < 0 THEN -v ELSE v

Sign(v) == IF v > 0 THEN 1 ELSE IF v < 0 THEN -1 ELSE 0

\* Integer division rounding toward zero, so that -x is treated like x.
TDiv(a, b) == IF a >= 0 THEN a \div b ELSE -((-a) \div b)

\* x * y on IEEE-754 doubles.  The smallest positive double is about
\* 4.9e-324; a product of magnitude below half of it is 0.0.  Every mantissa
\* of the model is below 2^31, so a product with e >= 333 underflows to zero
\* (1e-200 * 1e-200 == 0.0 in Python); the exponents the model uses are
\* far from the border on either side.
FloatMul(x, y) ==
    IF x.m = 0 \/ y.m = 0 \/ x.e + y.e >= 333
    THEN [m |-> 0, e |-> 0]
    ELSE Norm([m |-> x.m * y.m, e |-> x.e + y.e])

FloatIsZero(x) == x.m = 0

FloatSign(x) == Sign(x.m)

\* x <= y
FloatLeq(x, y) == x.m * 10^y.e <= y.m * 10^x.e

\* The value in fixed point (Scale units per 1.0), rounded toward zero.
Scale == 10^4

ToFixed(x) ==
    IF x.e <= 4 THEN x.m * 10^(4 - x.e)
    ELSE IF x.e <= 13 THEN TDiv(x.m, 10^(x.e - 4))
    ELSE 0

\* An exponent k/8 as the integer k.  The model only uses exponents that are
\* multiples of 1/8: they are exact doubles and their powers are square roots.
Eighths(x) == (x.m * 8) \div (10^x.e)

(***************************************************************************)
(* Fixed-point arithmetic of the generator.                                *)
(***************************************************************************)
pi == (355 * Scale) \div 113

FMul(a, b) == TDiv(a * b, Scale)

RECURSIVE SqrtSearch(_, _, _)
SqrtSearch(n, lo, hi) ==
    IF lo >= hi THEN lo
    ELSE LET mid == (lo + hi + 1) \div 2
         IN IF mid * mid <= n THEN SqrtSearch(n, mid, hi)
            ELSE SqrtSearch(n, lo, mid - 1)

FSqrt(v) == SqrtSearch(v * Scale, 0, 46340)

RECURSIVE IPow(_, _)
IPow(v, k) == IF k = 0 THEN Scale ELSE FMul(v, IPow(v, k - 1))

\* v ** (k/8) for v >= 0: v^(k div 8) times the square roots the binary
\* digits of k select.  numpy gives 0.0 ** 0.0 == 1.0, and so does this.
Pow(v, k) ==
    LET r2 == FSqrt(v)
        r4 == FSqrt(r2)
        r8 == FSqrt(r4)
        pick(r, on) == IF on THEN r ELSE Scale
    IN FMul(FMul(IPow(v, k \div 8), pick(r2, (k \div 4) % 2 = 1)),
            FMul(pick(r4, (k \div 2) % 2 = 1), pick(r8, k % 2 = 1)))

\* Taylor polynomials on [0, pi/2], extended by symmetry to [-pi, pi].
CosT(x) ==
    LET y == (x * x) \div Scale
        t1 == y \div 2
        t2 == (t1 * y) \div (12 * Scale)
        t3 == (t2 * y) \div (30 * Scale)
        t4 == (t3 * y) \div (56 * Scale)
        t5 == (t4 * y) \div (90 * Scale)
    IN Scale - t1 + t2 - t3 + t4 - t5

SinT(x) ==
    LET y == (x * x) \div Scale
        s2 == (x * y) \div (6 * Scale)
        s3 == (s2 * y) \div (20 * Scale)
        s4 == (s3 * y) \div (42 * Scale)
        s5 == (s4 * y) \div (72 * Scale)
    IN x - s2 + s3 - s4 + s5

Cos(x) == LET a == Abs(x) IN IF 2 * a <= pi THEN CosT(a) ELSE -CosT(pi - a)

Sin(x) == LET a == Abs(x)
          IN Sign(x) * (IF 2 * a <= pi THEN SinT(a) ELSE SinT(pi - a))

(***************************************************************************)
(* numpy helpers used by generate_superquadric_mesh.                       *)
(***************************************************************************)
\* np.linspace(start, stop, num): num samples, both ends included.
linspace(start, stop, num) ==
    [k \in 1..num |->
        IF num = 1 THEN start
        ELSE start + ((k - 1) * (stop - start)) \div (num - 1)] \o << >>

\* np.meshgrid(a, b), default indexing "xy": two arrays of Len(b) rows and
\* Len(a) columns; the first repeats a along every row, the second holds
\* b[i] all along row i.
meshgrid_first_ij(a, b) == [i \in 1..Len(a) |-> [j \in 1..Len(b) |-> a[i]]]

meshgrid_first(a, b) == [i \in 1..Len(b) |-> [j \in 1..Len(a) |-> a[j]]]

meshgrid_second(a, b) == [i \in 1..Len(b) |-> [j \in 1..Len(a) |-> b[i]]]

\* ndarray.flatten(): the rows one after the other.
RECURSIVE flatten_rows(_, _)
flatten_rows(arr, i) ==
    IF i > Len(arr) THEN << >> ELSE (arr[i] \o << >>) \o flatten_rows(arr, i + 1)

flatten(arr) == flatten_rows(arr, 1)

\* np.vstack((x, y, z)).T: row k is (x[k], y[k], z[k]).
vstack_T_first_twice(x, y, z) == [k \in 1..Len(x) |-> <<x[k], x[k], z[k]>>] \o << >>

vstack_T(x, y, z) == [k \in 1..Len(x) |-> <<x[k], y[k], z[k]>>] \o << >>

\* np.abs(v): the base of every power.
pow_base_raw(v) == v

pow_base(v) == Abs(v)

\* np.sign(v) * np.abs(v) ** e, e given in eighths.
spow(v, k) == Sign(v) * Pow(pow_base(v), k)

(***************************************************************************)
(* generate_superquadric_mesh(a1, a2, a3, epsilon1, epsilon2, num_points). *)
(* The elementwise cos / sin / power are taken on the two linspace vectors *)
(* before meshgrid spreads them over the grid, which gives the same arrays *)
(* as spreading first and applying them to every grid entry.               *)
(***************************************************************************)
HALF_NUM_POINTS == 50 \div 2

DEFAULT_NUM_POINTS == 50

\* The two triangles appended for the cell whose first corner is idx.
cell_faces_single(idx, num_points) ==
    << <<idx, idx + 1, idx + num_points>> >>

cell_faces_swapped(idx, num_points) ==
    << <<idx + 1, idx + num_points + 1, idx + num_points>>,
       <<idx, idx + 1, idx + num_points>> >>

cell_faces(idx, num_points) ==
    << <<idx, idx + 1, idx + num_points>>,
       <<idx + 1, idx + num_points + 1, idx + num_points>> >>

\* idx = i * num_points + j
cell_index_after_scene(i, j, num_points) ==
    i * num_points + j + Len(scene) * num_points * num_points

cell_index_one_based(i, j, num_points) == i * num_points + j + 1

cell_index(i, j, num_points) == i * num_points + j

\* range(num_points - 1) as the number of iterations.
loop_count_full(num_points) == IF num_points > 0 THEN num_points ELSE 0

loop_count_abs(num_points) == Abs(num_points - 1)

loop_count(num_points) == IF num_points - 1 > 0 THEN num_points - 1 ELSE 0

\* for j in range(num_points - 1): the appends of row i, from column j on.
RECURSIVE faces_inner(_, _, _)
faces_inner(i, j, num_points) ==
    IF j >= loop_count(num_points) THEN << >>
    ELSE cell_faces(cell_index(i, j, num_points), num_points) \o faces_inner(i, j + 1, num_points)

\* for i in range(num_points - 1): ...
RECURSIVE faces_outer(_, _)
faces_outer(i, num_points) ==
    IF i >= loop_count(num_points) THEN << >>
    ELSE faces_inner(i, 0, num_points) \o faces_outer(i + 1, num_points)

generate_superquadric_mesh(a1, a2, a3, epsilon1, epsilon2, num_points) ==
    LET phi_s == linspace(-(pi \div 2), pi \div 2, num_points)
        theta_s == linspace(-pi, pi, num_points)
        e1 == Eighths(epsilon1)
        e2 == Eighths(epsilon2)
        cos_phi == [j \in 1..num_points |-> spow(Cos(phi_s[j]), e1)] \o << >>
        sin_phi == [j \in 1..num_points |-> spow(Sin(phi_s[j]), e1)] \o << >>
        cos_theta == [i \in 1..num_points |-> spow(Cos(theta_s[i]), e2)] \o << >>
        sin_theta == [i \in 1..num_points |-> spow(Sin(theta_s[i]), e2)] \o << >>
        cp == meshgrid_first(cos_phi, theta_s)
        sp == meshgrid_first(sin_phi, theta_s)
        ct == meshgrid_second(phi_s, cos_theta)
        st == meshgrid_second(phi_s, sin_theta)
        x == [i \in 1..num_points |-> [j \in 1..num_points |->
                FMul(ToFixed(a1), FMul(cp[i][j], ct[i][j]))]]
        y == [i \in 1..num_points |-> [j \in 1..num_points |->
                FMul(ToFixed(a2), FMul(cp[i][j], st[i][j]))]]
        z == [i \in 1..num_points |-> [j \in 1..num_points |->
                FMul(ToFixed(a3), sp[i][j])]]
    IN [vertices |-> vstack_T(flatten(x), flatten(y), flatten(z)),
        faces |-> faces_outer(0, num_points)]


(***************************************************************************)
(* Python values and JSON text.  A Python value is a float, a str, a list  *)
(* or a dict; a JSON document is a number, a string, an array or an        *)
(* object, or text that does not parse.  json.dump writes a float as its   *)
(* repr, which json.load reads back as the same double.                    *)
(***************************************************************************)
PyFloat(d) == [type |-> "float", value |-> d]

PyStr(s) == [type |-> "str", value |-> s]

PyList(items) == [type |-> "list", items |-> items]

PyDict(members) == [type |-> "dict", members |-> members]

InvalidJson == [type |-> "invalid"]

RECURSIVE json_dump(_)
json_dump(v) ==
    CASE v.type = "float" -> [type |-> "number", repr |-> v.value]
      [] v.type = "str" -> [type |-> "string", chars |-> v.value]
      [] v.type = "list" ->
            [type |-> "array", items |-> [k \in 1..Len(v.items) |-> json_dump(v.items[k])]]
      [] v.type = "dict" ->
            [type |-> "object",
             members |-> [key \in DOMAIN v.members |-> json_dump(v.members[key])]]

RECURSIVE json_load(_)
json_load(t) ==
    CASE t.type = "number" -> PyFloat(t.repr)
      [] t.type = "string" -> PyStr(t.chars)
      [] t.type = "array" -> PyList([k \in 1..Len(t.items) |-> json_load(t.items[k])])
      [] t.type = "object" ->
            PyDict([key \in DOMAIN t.members |-> json_load(t.members[key])])

\* A file: absent, or present with its text.
NoFile == [exists |-> FALSE]

FileWith(text) == [exists |-> TRUE, text |-> text]

\* What a function call does: it returns a value or raises.
Return(v) == [raised |-> "", value |-> v]

Raise(exc) == [raised |-> exc, value |-> << >>]

(***************************************************************************)
(* round(x, 2): to the nearest multiple of 0.01, an exact tie going to the *)
(* even neighbour.  A decimal whose last digit is the 5 of a tie is an     *)
(* exact double only when it is a multiple of 1/8, and those are the ties  *)
(* the model feeds it.                                                     *)
(***************************************************************************)
round2(d) ==
    IF d.e <= 2 THEN d
    ELSE IF d.e > 11 THEN Dec(0, 0)
    ELSE LET unit == 10^(d.e - 2)
             a == Abs(d.m)
             q == a \div unit
             r == a % unit
             up == \/ r > unit \div 2
                   \/ r = unit \div 2 /\ q % 2 = 1
         IN Dec(Sign(d.m) * (IF up THEN q + 1 ELSE q), 2)

(***************************************************************************)
(* class Superquadric: seventeen widgets, each holding one double.         *)
(* e_widget tells whether e1 and e2 are the Sliders of __init__ or the     *)
(* NumberEdits set_values puts in their place.  A new NumberEdit holds     *)
(* 0.0; a Slider given the limits 0.1 .. 1.9 holds 0.1.                    *)
(***************************************************************************)
SLIDER_MIN == Dec(1, 1)

SLIDER_MAX == Dec(19, 1)

NumberFields == {"a1", "a2", "a3", "e1", "e2", "x", "y", "z",
                 "r11", "r12", "r13", "r21", "r22", "r23", "r31", "r32", "r33"}

Superquadric ==
    [a1 |-> Dec(0, 0), a2 |-> Dec(0, 0), a3 |-> Dec(0, 0),
     e1 |-> SLIDER_MIN, e2 |-> SLIDER_MIN, e_widget |-> "Slider",
     x |-> Dec(0, 0), y |-> Dec(0, 0), z |-> Dec(0, 0),
     r11 |-> Dec(0, 0), r12 |-> Dec(0, 0), r13 |-> Dec(0, 0),
     r21 |-> Dec(0, 0), r22 |-> Dec(0, 0), r23 |-> Dec(0, 0),
     r31 |-> Dec(0, 0), r32 |-> Dec(0, 0), r33 |-> Dec(0, 0)]

\* Superquadric.set_values on a fresh object; the arguments are Python values.
set_values(sq, scale, position, epsilon1, epsilon2, rotation) ==
    [sq EXCEPT
        !.a1 = scale.items[1].value,
        !.a2 = scale.items[2].value,
        !.a3 = scale.items[3].value,
        !.e_widget = "NumberEdit",
        !.e1 = epsilon1.value,
        !.e2 = epsilon2.value,
        !.x = position.items[1].value,
        !.y = position.items[2].value,
        !.z = position.items[3].value,
        !.r11 = rotation.items[1].items[1].value,
        !.r12 = rotation.items[1].items[2].value,
        !.r13 = rotation.items[1].items[3].value,
        !.r21 = rotation.items[2].items[1].value,
        !.r22 = rotation.items[2].items[2].value,
        !.r23 = rotation.items[2].items[3].value,
        !.r31 = rotation.items[3].items[1].value,
        !.r32 = rotation.items[3].items[2].value,
        !.r33 = rotation.items[3].items[3].value]

IsFloatList(v, n) ==
    /\ v.type = "list"
    /\ Len(v.items) >= n
    /\ \A k \in 1..n : v.items[k].type = "float"

\* A component every subscript of load_superquadrics and set_values accepts.
WellFormedComponent(c) ==
    /\ c.type = "dict"
    /\ {"scale", "position", "epsilon1", "epsilon2", "rotation"} \subseteq DOMAIN c.members
    /\ IsFloatList(c.members["scale"], 3)
    /\ IsFloatList(c.members["position"], 3)
    /\ c.members["epsilon1"].type = "float"
    /\ c.members["epsilon2"].type = "float"
    /\ c.members["rotation"].type = "list"
    /\ Len(c.members["rotation"].items) >= 3
    /\ \A k \in 1..3 : IsFloatList(c.members["rotation"].items[k], 3)

\* load_superquadrics(filename), given the file found under that name.
load_superquadrics(file) ==
    IF ~file.exists THEN Raise("FileNotFoundError")
    ELSE IF file.text.type = "invalid" THEN Raise("JSONDecodeError")
    ELSE LET data == json_load(file.text)
         IN IF data.type # "dict" THEN Raise("TypeError")
            ELSE IF "components" \notin DOMAIN data.members THEN Raise("KeyError")
            ELSE LET components == data.members["components"]
                 IN IF components.type # "list" THEN Raise("TypeError")
                    ELSE IF \E k \in 1..Len(components.items) :
                                ~WellFormedComponent(components.items[k])
                    THEN Raise("KeyError")
                    ELSE Return([k \in 1..Len(components.items) |->
                            LET component == components.items[k].members
                            IN set_values(Superquadric,
                                          component["scale"],
                                          component["position"],
                                          component["epsilon1"],
                                          component["epsilon2"],
                                          component["rotation"])])

(***************************************************************************)
(* AppWindow.save_object.                                                  *)
(***************************************************************************)
\* if sq.a1.double_value == 0 or sq.a2.double_value == 0 or sq.a3.double_value == 0
save_skips_by_product(sq) == FloatIsZero(FloatMul(FloatMul(sq.a1, sq.a2), sq.a3))

save_skips(sq) == FloatIsZero(sq.a1) \/ FloatIsZero(sq.a2) \/ FloatIsZero(sq.a3)

\* The dict built for one superquadric.
sq_data(sq) ==
    PyDict([scale |-> PyList(<<PyFloat(sq.a1), PyFloat(sq.a2), PyFloat(sq.a3)>>),
            rotation |-> PyList(<<
                PyList(<<PyFloat(sq.r11), PyFloat(sq.r12), PyFloat(sq.r13)>>),
                PyList(<<PyFloat(sq.r21), PyFloat(sq.r22), PyFloat(sq.r23)>>),
                PyList(<<PyFloat(sq.r31), PyFloat(sq.r32), PyFloat(sq.r33)>>) >>),
            position |-> PyList(<<PyFloat(sq.x), PyFloat(sq.y), PyFloat(sq.z)>>),
            epsilon1 |-> PyFloat(round2(sq.e1)),
            epsilon2 |-> PyFloat(round2(sq.e2))])

\* for sq in self.sqs: ... continue ... superquadrics.append(sq_data)
RECURSIVE save_loop(_, _)
save_loop(list, k) ==
    IF k > Len(list) THEN << >>
    ELSE IF save_skips(list[k]) THEN save_loop(list, k + 1)
    ELSE <<sq_data(list[k])>> \o save_loop(list, k + 1)

new_entry(description, list) ==
    PyDict([description |-> PyStr(description),
            superquadrics |-> PyList(save_loop(list, 1))])

\* data.append(new_entry)
list_prepend(items, entry) == <<entry>> \o items

list_append(items, entry) == items \o <<entry>>

\* The whole handler on a given file: what it raises and the file it leaves.
save_object_overwriting(file, description, list) ==
    LET data == IF file.exists /\ file.text.type = "array"
                THEN json_load(file.text) ELSE PyList(<< >>)
    IN [raised |-> "",
        file |-> FileWith(json_dump(
            PyList(list_append(data.items, new_entry(description, list)))))]

save_object(file, description, list) ==
    IF file.exists /\ file.text.type = "invalid"
    THEN [raised |-> "JSONDecodeError", file |-> file]
    ELSE LET data == IF file.exists THEN json_load(file.text) ELSE PyList(<< >>)
         IN IF data.type # "list"
            THEN [raised |-> "AttributeError", file |-> file]
            ELSE [raised |-> "",
                  file |-> FileWith(json_dump(
                      PyList(list_append(data.items, new_entry(description, list)))))]

\* No stand-alone call of the generator has returned.
NoMesh == [returned |-> FALSE, vertices |-> << >>, faces |-> << >>]

(***************************************************************************)
(* AppWindow.visualize_superquadrics.                                      *)
(***************************************************************************)
\* if a1 * a2 * a3 != 0
viz_keeps_all(sq) == TRUE

viz_keeps(sq) == ~FloatIsZero(FloatMul(FloatMul(sq.a1, sq.a2), sq.a3))

\* R = np.array([[r11, r12, r13], [r21, r22, r23], [r31, r32, r33]])
rotation_matrix(sq) ==
    << <<ToFixed(sq.r11), ToFixed(sq.r12), ToFixed(sq.r13)>>,
       <<ToFixed(sq.r21), ToFixed(sq.r22), ToFixed(sq.r23)>>,
       <<ToFixed(sq.r31), ToFixed(sq.r32), ToFixed(sq.r33)>> >>

\* np.array([x, y, z])
translation(sq) == <<ToFixed(sq.x), ToFixed(sq.y), ToFixed(sq.z)>>

\* R.T
transpose(M) ==
    << <<M[1][1], M[2][1], M[3][1]>>,
       <<M[1][2], M[2][2], M[3][2]>>,
       <<M[1][3], M[2][3], M[3][3]>> >>

\* V @ M for an array V of 3-vectors (one per row) and a 3x3 matrix M.
matmul(V, M) ==
    [k \in 1..Len(V) |->
        [c \in 1..3 |-> FMul(V[k][1], M[1][c]) + FMul(V[k][2], M[2][c])
                          + FMul(V[k][3], M[3][c])] \o << >>] \o << >>

\* V += t
add_rows(V, t) ==
    [k \in 1..Len(V) |-> <<V[k][1] + t[1], V[k][2] + t[2], V[k][3] + t[3]>>] \o << >>

\* vertices = vertices @ R.T; vertices += np.array([x, y, z])
place_translate_first(V, R, t) == matmul(add_rows(V, t), transpose(R))

place(V, R, t) == add_rows(matmul(V, transpose(R)), t)

\* The geometry added for self.sqs[i] (i counted from 0, as in the name).
superquadric_geometry(i, sq) ==
    LET mesh == generate_superquadric_mesh(sq.a1, sq.a2, sq.a3, sq.e1, sq.e2,
                                           DEFAULT_NUM_POINTS)
    IN [name |-> [kind |-> "__superquadric__", i |-> i],
        vertices |-> place(mesh.vertices, rotation_matrix(sq), translation(sq)),
        triangles |-> mesh.faces]

\* for i in range(len(self.sqs)): the geometries added from index i on.
RECURSIVE viz_loop(_, _)
viz_loop(list, i) ==
    IF i >= Len(list) THEN << >>
    ELSE IF viz_keeps(list[i + 1])
         THEN <<superquadric_geometry(i, list[i + 1])>> \o viz_loop(list, i + 1)
         ELSE viz_loop(list, i + 1)

\* The widget values read before each generate_superquadric_mesh call.
RECURSIVE viz_calls(_, _)
viz_calls(list, i) ==
    IF i >= Len(list) THEN << >>
    ELSE IF viz_keeps(list[i + 1])
         THEN <<[i |-> i, sq |-> list[i + 1]]>> \o viz_calls(list, i + 1)
         ELSE viz_calls(list, i + 1)

(***************************************************************************)
(* AppWindow.load(path).  What Open3D makes of the file is an input: a      *)
(* triangle model, a point cloud, or nothing (read_point_cloud raised and   *)
(* the exception was swallowed).  add_model / add_geometry run inside a     *)
(* try block whose except branch prints the exception; whether they raise   *)
(* is an input too.  The result is the scene load leaves.                   *)
(***************************************************************************)
PathContents == {"triangles", "points", "unreadable"}

\* The present scene was not made by load.
NoLoad == [contents |-> "", add_raises |-> FALSE]

\* The geometry add_model / add_geometry puts in the scene.
model_geometry(contents) == [name |-> [kind |-> "__model__"], geometry |-> contents]

load_clearing_on_success(previous, contents, add_raises) ==
    IF contents = "unreadable" THEN previous
    ELSE IF add_raises THEN << >>
    ELSE <<model_geometry(contents)>>

load(previous, contents, add_raises) ==
    LET cleared == << >>
    IN IF contents = "unreadable" THEN cleared
       ELSE IF add_raises THEN cleared
       ELSE Append(cleared, model_geometry(contents))

(***************************************************************************)
(* class Settings and AppWindow._apply_settings.  settings.material is a    *)
(* reference to one of the four records of settings._materials: the model   *)
(* keeps the key of that record, so that an assignment through              *)
(* settings.material is an assignment to the record under that key.  The    *)
(* six base_* values a material prefab sets are kept as the prefab's name.  *)
(***************************************************************************)
LIT == "defaultLit"

UNLIT == "defaultUnlit"

NORMALS == "normals"

DEPTH == "depth"

MATERIAL_SHADERS == <<LIT, UNLIT, NORMALS, DEPTH>>

\* gui.Color(r, g, b) and the list [r, g, b, a] made of it.
Color(r, g, b) == <<r, g, b, Dec(1, 0)>>

\* rendering.MaterialRecord(): base_color [1, 1, 1, 1], point_size 3.
MaterialRecord ==
    [shader |-> "", base_color |-> Color(Dec(1, 0), Dec(1, 0), Dec(1, 0)),
     point_size |-> 3, prefab |-> ""]

\* None
None == [type |-> "NoneType"]

\* Settings.__init__
Settings ==
    [bg_color |-> Color(Dec(1, 0), Dec(1, 0), Dec(1, 0)),
     show_skybox |-> FALSE,
     show_axes |-> FALSE,
     use_sun |-> TRUE,
     new_ibl_name |-> None,
     apply_material |-> TRUE,
     _materials |->
        [name \in {LIT, UNLIT, NORMALS, DEPTH} |->
            [MaterialRecord EXCEPT
                !.shader = name,
                !.base_color = IF name \in {LIT, UNLIT}
                               THEN Color(Dec(9, 1), Dec(9, 1), Dec(9, 1))
                               ELSE @]],
     material |-> LIT]

\* Settings.set_material
set_material(st, name) == [st EXCEPT !.material = name, !.apply_material = TRUE]

\* self.settings.material.<attribute> = value
set_material_attribute_of_all(st, attribute, value) ==
    [st EXCEPT !._materials = [name \in DOMAIN @ |-> [@[name] EXCEPT ![attribute] = value]]]

set_material_attribute(st, attribute, value) ==
    [st EXCEPT !._materials[st.material][attribute] = value]

\* Settings.apply_material_prefab
apply_material_prefab(st, name) == set_material_attribute(st, "prefab", name)

\* AppWindow._apply_settings on the given settings: the settings it leaves,
\* the materials it passed to scene.update_material and the values it put in
\* the material widgets.
ShownMaterial(st) ==
    [prefab_enabled |-> st._materials[st.material].shader = LIT,
     color |-> st._materials[st.material].base_color,
     point_size |-> st._materials[st.material].point_size]

_apply_settings_keeping_flag(st) ==
    [settings |-> [st EXCEPT !.new_ibl_name = None],
     set_indirect_light |-> IF st.new_ibl_name # None THEN <<st.new_ibl_name>> ELSE << >>,
     update_material |-> IF st.apply_material THEN <<st._materials[st.material]>> ELSE << >>,
     widgets |-> ShownMaterial(st)]

_apply_settings_keeping_ibl(st) ==
    [settings |-> [st EXCEPT !.apply_material = FALSE],
     set_indirect_light |-> IF st.new_ibl_name # None THEN <<st.new_ibl_name>> ELSE << >>,
     update_material |-> IF st.apply_material THEN <<st._materials[st.material]>> ELSE << >>,
     widgets |-> ShownMaterial(st)]

_apply_settings(st) ==
    [settings |-> [st EXCEPT !.new_ibl_name = None, !.apply_material = FALSE],
     set_indirect_light |-> IF st.new_ibl_name # None THEN <<st.new_ibl_name>> ELSE << >>,
     update_material |-> IF st.apply_material THEN <<st._materials[st.material]>> ELSE << >>,
     widgets |-> ShownMaterial(st)]

\* gui.Application.instance.resource_path + "/" + name
resource_file(name) == [type |-> "str", value |-> <<"resource_path", "/", name>>]

DEFAULT_IBL == "default"

\* The Settings object, the widgets and the update_material call that
\* AppWindow.__init__ leaves: line 511 calls _on_point_size(5), line 848 calls
\* _apply_settings() once more.
SettingsAfterInit ==
    LET created == [Settings EXCEPT !.new_ibl_name = resource_file(DEFAULT_IBL)]
        first == _apply_settings(
                    [set_material_attribute(created, "point_size", 5)
                        EXCEPT !.apply_material = TRUE])
        second == _apply_settings(first.settings)
    IN [settings |-> second.settings,
        set_indirect_light |-> first.set_indirect_light \o second.set_indirect_light,
        update_material |-> first.update_material \o second.update_material,
        widgets |-> second.widgets]

(***************************************************************************)
(* The application.  main() always builds the window with load = True:     *)
(* self.sqs starts with one fresh Superquadric that gets no panel,         *)
(* followed by the components of example.json, each with a panel "SQn".    *)
(***************************************************************************)
Component(scale, rotation, position, epsilon1, epsilon2) ==
    PyDict([scale |-> PyList([k \in 1..3 |-> PyFloat(scale[k])]),
            rotation |-> PyList([r \in 1..3 |->
                            PyList([c \in 1..3 |-> PyFloat(rotation[r][c])])]),
            position |-> PyList([k \in 1..3 |-> PyFloat(position[k])]),
            epsilon1 |-> PyFloat(epsilon1),
            epsilon2 |-> PyFloat(epsilon2)])

\* save_sq_json: res['components'] = components; json.dump(res, ...)
save_sq_json(components) ==
    FileWith(json_dump(PyDict([components |-> PyList(components)])))

Identity3 ==
    << <<Dec(1, 0), Dec(0, 0), Dec(0, 0)>>,
       <<Dec(0, 0), Dec(1, 0), Dec(0, 0)>>,
       <<Dec(0, 0), Dec(0, 0), Dec(1, 0)>> >>

QuarterTurnZ ==
    << <<Dec(0, 0), Dec(-1, 0), Dec(0, 0)>>,
       <<Dec(1, 0), Dec(0, 0), Dec(0, 0)>>,
       <<Dec(0, 0), Dec(0, 0), Dec(1, 0)>> >>

Origin == <<Dec(0, 0), Dec(0, 0), Dec(0, 0)>>

\* A unit sphere at the origin.
Sphere == Component(<<Dec(1, 0), Dec(1, 0), Dec(1, 0)>>, Identity3, Origin,
                    Dec(1, 0), Dec(1, 0))

\* A rotated, shifted shape whose epsilon1 = 0.125 has three decimals.
Tilted == Component(<<Dec(2, 0), Dec(1, 0), Dec(1, 0)>>, QuarterTurnZ,
                    <<Dec(3, 0), Dec(0, 0), Dec(-1, 0)>>, Dec(125, 3), Dec(15, 1))

\* A shape with two semi-axes of 1e-200.
Tiny == Component(<<Dec(1, 200), Dec(1, 200), Dec(1, 0)>>, Identity3, Origin,
                  Dec(1, 0), Dec(1, 0))

ExampleFiles ==
    {save_sq_json(<< >>), save_sq_json(<<Sphere>>), save_sq_json(<<Tilted>>),
     save_sq_json(<<Tilted, Tiny>>)}

\* objects.json as the program may find it: absent, left by an earlier
\* session, holding a {"components": ...} document, or not JSON at all.
EarlierEntry == new_entry("earlier", load_superquadrics(save_sq_json(<<Sphere>>)).value)

InitialFiles ==
    {NoFile, FileWith(json_dump(PyList(<<EarlierEntry>>))),
     save_sq_json(<<Sphere>>), FileWith(InvalidJson)}

Descriptions == {"", "chair"}

\* The values a user types into a widget of each kind.
EditValues(f) ==
    IF f \in {"a1", "a2", "a3"} THEN {Dec(0, 0), Dec(-1, 0)}
    ELSE IF f \in {"e1", "e2"} THEN {Dec(375, 3), Dec(25, 1)}
    ELSE IF f \in {"x", "y", "z"} THEN {Dec(5, 1)}
    ELSE {Dec(-1, 0)}

\* AppWindow.__init__(width, height, load = True).
AppState(example, file) ==
    LET loaded == load_superquadrics(example).value
    IN /\ settings = SettingsAfterInit.settings
       /\ material_widgets = SettingsAfterInit.widgets
       /\ last_callback = [name |-> "__init__",
                           set_indirect_light |-> SettingsAfterInit.set_indirect_light,
                           update_material |-> SettingsAfterInit.update_material]
       /\ sqs = <<Superquadric>> \o loaded
       /\ panels = [idx \in 1..Len(loaded) |-> [label |-> idx, sq |-> idx]]
       /\ textbox = ""
       /\ objects_json = file
       /\ initial_json = file
       /\ last_load = NoLoad
       /\ scene = << >>
       /\ generated = << >>
       /\ raised = ""
       /\ nedits = 0
       /\ nsaves = 0
       /\ save_log = << >>

\* The application with no stand-alone call of the generator.
AppInit(example, file) ==
    /\ AppState(example, file)
    /\ mesh_args = [a1 |-> Dec(1, 0), a2 |-> Dec(1, 0), a3 |-> Dec(1, 0),
                    epsilon1 |-> Dec(1, 0), epsilon2 |-> Dec(1, 0),
                    num_points |-> DEFAULT_NUM_POINTS]
    /\ mesh_out = NoMesh

\* The user types v into widget f of the panel p.  panels[p].sq is the index
\* (from 0) of the superquadric the panel shows.  A Slider only takes values
\* inside its limits; the panels of a loaded component hold NumberEdits.
EditNumber ==
    \E p \in 1..Len(panels) : \E f \in NumberFields : \E v \in EditValues(f) :
        LET i == panels[p].sq
        IN /\ nedits < MaxEdits
           /\ sqs[i + 1][f] # v
           /\ f \in {"e1", "e2"} => sqs[i + 1].e_widget = "NumberEdit"
           /\ sqs' = [sqs EXCEPT ![i + 1][f] = v]
           /\ nedits' = nedits + 1
           /\ UNCHANGED <<panels, textbox, objects_json, scene, generated, raised, nsaves,
                          initial_json, save_log, mesh_args, mesh_out, settings_vars, last_load>>

\* The user types a description into the text box.
EditDescription ==
    \E t \in Descriptions :
        /\ nedits < MaxEdits
        /\ t # textbox
        /\ textbox' = t
        /\ nedits' = nedits + 1
        /\ UNCHANGED <<sqs, panels, objects_json, scene, generated, raised, nsaves,
                       initial_json, save_log, mesh_args, mesh_out, settings_vars, last_load>>

\* The Add button.  Superquadric has no attribute "roll": the handler raises
\* AttributeError after the append and before the panel is added.
add_superquadric ==
    /\ Len(sqs) < MaxSqs
    /\ sqs' = Append(sqs, Superquadric)
    /\ raised' = "AttributeError"
    /\ UNCHANGED <<panels, textbox, objects_json, scene, generated, nedits, nsaves,
                   initial_json, save_log, mesh_args, mesh_out, settings_vars, last_load>>

\* The Save button.
SaveClick ==
    /\ nsaves < MaxSaves
    /\ LET r == save_object(objects_json, textbox, sqs)
       IN /\ objects_json' = r.file
          /\ raised' = r.raised
          /\ save_log' = IF r.raised = ""
                         THEN Append(save_log, [description |-> textbox, sqs |-> sqs])
                         ELSE save_log
    /\ nsaves' = nsaves + 1
    /\ UNCHANGED <<sqs, panels, textbox, scene, generated, nedits, initial_json,
                   mesh_args, mesh_out, settings_vars, last_load>>

\* The Visualize button.  instances_marker is always empty, so the scene
\* holds the superquadric geometries alone afterwards.
visualize_superquadrics ==
    /\ scene' = viz_loop(sqs, 0)
    /\ generated' = viz_calls(sqs, 0)
    /\ raised' = ""
    /\ last_load' = NoLoad
    /\ UNCHANGED <<sqs, panels, textbox, objects_json, nedits, nsaves, initial_json,
                   save_log, mesh_args, mesh_out, settings_vars>>

\* File > Open (or the path on the command line): load(path) with the
\* contents Open3D finds there.
\* add_raises only matters when there is something to add.
LoadPath ==
    \E contents \in PathContents : \E add_raises \in BOOLEAN :
        /\ contents = "unreadable" => ~add_raises
        /\ scene' = load(scene, contents, add_raises)
        /\ raised' = ""
        /\ last_load' = [contents |-> contents, add_raises |-> add_raises]
        /\ UNCHANGED <<sqs, panels, textbox, objects_json, generated, nedits, nsaves,
                       initial_json, save_log, mesh_args, mesh_out, settings_vars>>

\* The panels with the Save and Visualize buttons, started on an example.json
\* of one or of two components.
WindowExamples == {save_sq_json(<<Tilted>>), save_sq_json(<<Tilted, Tiny>>)}

WindowInit == \E example \in WindowExamples : AppInit(example, NoFile)

WindowNext ==
    \/ EditNumber
    \/ SaveClick
    \/ visualize_superquadrics

SpecWindow == WindowInit /\ [][WindowNext]_vars

\* Open, Visualize, Add and Save.
OpenInit == \E example \in ExampleFiles : AppInit(example, NoFile)

OpenNext ==
    \/ LoadPath
    \/ visualize_superquadrics
    \/ add_superquadric
    \/ SaveClick

SpecOpen == OpenInit /\ [][OpenNext]_vars

\* The list and the file: edits, Add and Save.
SaveInit == \E example \in ExampleFiles : \E file \in InitialFiles : AppInit(example, file)

SaveNext == EditNumber \/ EditDescription \/ add_superquadric \/ SaveClick

SpecSave == SaveInit /\ [][SaveNext]_vars

\* The list and the scene: edits, Add and Visualize.
ViewInit == \E example \in ExampleFiles : AppInit(example, NoFile)

ViewNext == EditNumber \/ add_superquadric \/ visualize_superquadrics

SpecView == ViewInit /\ [][ViewNext]_vars

(***************************************************************************)
(* The settings panel.  Every callback ends with _apply_settings, and an   *)
(* action is the whole callback.                                           *)
(***************************************************************************)
BackgroundColors == {Color(Dec(0, 0), Dec(0, 0), Dec(0, 0)), Color(Dec(1, 0), Dec(1, 0), Dec(1, 0))}

MaterialColors == {Color(Dec(1, 0), Dec(0, 0), Dec(0, 0))}

PointSizes == {Dec(9, 0)}

PrefabNames == {"Clay"}

\* The environment maps of the resource directory, by the names the combobox
\* lists.
IblNames == {DEFAULT_IBL, "park"}

\* int(x)
int(x) == TDiv(x.m, 10^x.e)

\* self._apply_settings() at the end of the callback called name, run on the
\* settings st the callback has written.
Completed(name, st) ==
    LET r == _apply_settings(st)
    IN /\ settings' = r.settings
       /\ material_widgets' = r.widgets
       /\ last_callback' = [name |-> name,
                            set_indirect_light |-> r.set_indirect_light,
                            update_material |-> r.update_material]
       /\ UNCHANGED <<sqs, panels, textbox, objects_json, scene, generated, raised, nedits,
                      nsaves, initial_json, save_log, mesh_args, mesh_out, last_load>>

_on_bg_color ==
    \E new_color \in BackgroundColors :
        Completed("_on_bg_color", [settings EXCEPT !.bg_color = new_color])

_on_show_skybox ==
    \E show \in BOOLEAN :
        Completed("_on_show_skybox", [settings EXCEPT !.show_skybox = show])

_on_show_axes ==
    \E show \in BOOLEAN :
        Completed("_on_show_axes", [settings EXCEPT !.show_axes = show])

_on_use_sun ==
    \E use \in BOOLEAN :
        Completed("_on_use_sun", [settings EXCEPT !.use_sun = use])

_on_new_ibl ==
    \E name \in IblNames :
        Completed("_on_new_ibl", [settings EXCEPT !.new_ibl_name = resource_file(name)])

_on_shader ==
    \E index \in 0..3 :
        Completed("_on_shader", set_material(settings, MATERIAL_SHADERS[index + 1]))

\* The combobox is enabled only while the Lit shader is selected.
_on_material_prefab ==
    \E name \in PrefabNames :
        /\ material_widgets.prefab_enabled
        /\ Completed("_on_material_prefab",
                     [apply_material_prefab(settings, name) EXCEPT !.apply_material = TRUE])

_on_material_color ==
    \E color \in MaterialColors :
        Completed("_on_material_color",
                  [set_material_attribute(settings, "base_color", color)
                      EXCEPT !.apply_material = TRUE])

_on_point_size ==
    \E size \in PointSizes :
        Completed("_on_point_size",
                  [set_material_attribute(settings, "point_size", int(size))
                      EXCEPT !.apply_material = TRUE])

SettingsInit == AppInit(save_sq_json(<<Sphere>>), NoFile)

SettingsNext ==
    \/ _on_bg_color
    \/ _on_show_skybox
    \/ _on_show_axes
    \/ _on_use_sun
    \/ _on_new_ibl
    \/ _on_shader
    \/ _on_material_prefab
    \/ _on_material_color
    \/ _on_point_size

SpecSettings == SettingsInit /\ [][SettingsNext]_vars

(***************************************************************************)
(* The generator called on its own: the arguments are drawn from small     *)
(* sets, the call returns the mesh.                                        *)
(***************************************************************************)
MeshAxes == {Dec(1, 0), Dec(2, 0), Dec(-1, 0), Dec(0, 0)}

MeshEps == {Dec(125, 3), Dec(5, 1), Dec(1, 0), Dec(1875, 3)}

MeshInit ==
    /\ mesh_args \in [a1 : MeshAxes, a2 : MeshAxes, a3 : MeshAxes,
                       epsilon1 : MeshEps, epsilon2 : MeshEps,
                       num_points : 0..MaxRes]
    /\ mesh_out = NoMesh
    /\ sqs = << >>
    /\ panels = << >>
    /\ textbox = ""
    /\ objects_json = [exists |-> FALSE]
    /\ scene = << >>
    /\ generated = << >>
    /\ raised = ""
    /\ nedits = 0
    /\ nsaves = 0
    /\ initial_json = [exists |-> FALSE]
    /\ save_log = << >>
    /\ last_load = NoLoad
    /\ settings = SettingsAfterInit.settings
    /\ material_widgets = SettingsAfterInit.widgets
    /\ last_callback = [name |-> "__init__",
                        set_indirect_light |-> SettingsAfterInit.set_indirect_light,
                        update_material |-> SettingsAfterInit.update_material]

CallGenerateAndClear ==
    /\ ~mesh_out.returned
    /\ LET m == generate_superquadric_mesh(mesh_args.a1, mesh_args.a2, mesh_args.a3,
                     mesh_args.epsilon1, mesh_args.epsilon2, mesh_args.num_points)
       IN mesh_out' = [returned |-> TRUE, vertices |-> m.vertices, faces |-> m.faces]
    /\ scene' = << >>
    /\ UNCHANGED <<sqs, panels, textbox, objects_json, generated, raised, nedits, nsaves,
                   initial_json, save_log, mesh_args, settings_vars, last_load>>

CallGenerate ==
    /\ ~mesh_out.returned
    /\ LET m == generate_superquadric_mesh(mesh_args.a1, mesh_args.a2, mesh_args.a3,
                     mesh_args.epsilon1, mesh_args.epsilon2, mesh_args.num_points)
       IN mesh_out' = [returned |-> TRUE, vertices |-> m.vertices, faces |-> m.faces]
    /\ UNCHANGED mesh_args
    /\ UNCHANGED app_vars

MeshNext == CallGenerate

SpecMesh == MeshInit /\ [][MeshNext]_vars

(***************************************************************************)
(* The generator called from outside the handlers while the application    *)
(* runs: Visualize and Save clicks come before and after the call.         *)
(***************************************************************************)
CallInit ==
    \E example \in ExampleFiles : \E num_points \in 0..MaxRes :
        /\ AppState(example, NoFile)
        /\ mesh_args = [a1 |-> Dec(2, 0), a2 |-> Dec(1, 0), a3 |-> Dec(1, 0),
                        epsilon1 |-> Dec(5, 1), epsilon2 |-> Dec(1, 0),
                        num_points |-> num_points]
        /\ mesh_out = NoMesh

CallNext == CallGenerate \/ visualize_superquadrics \/ SaveClick

SpecCall == CallInit /\ [][CallNext]_vars

N == mesh_args.num_points

\* C1: for every resolution N >= 2 and every a1, a2, a3, epsilon1, epsilon2 the
\* call returns exactly N*N vertices and exactly 2*(N-1)*(N-1) faces.
C1_MeshSizes ==
    (mesh_out.returned /\ N >= 2) =>
        /\ Len(mesh_out.vertices) = N * N
        /\ Len(mesh_out.faces) = 2 * (N - 1) * (N - 1)

\* The spec's example: resolution 4 on the unit sphere gives 16 vertices, 18 faces.
C1_Witness ==
    /\ mesh_out.returned
    /\ N = 4
    /\ mesh_args.a1 = Dec(1, 0) /\ mesh_args.a2 = Dec(1, 0) /\ mesh_args.a3 = Dec(1, 0)
    /\ mesh_args.epsilon1 = Dec(1, 0) /\ mesh_args.epsilon2 = Dec(1, 0)
    /\ Len(mesh_out.vertices) = 16
    /\ Len(mesh_out.faces) = 18

\* C2: for every resolution N >= 2, every index of every returned face is an
\* integer k with 0 <= k < N*N.
C2_FaceIndicesInRange ==
    (mesh_out.returned /\ N >= 2) =>
        \A f \in 1..Len(mesh_out.faces) : \A c \in 1..3 :
            mesh_out.faces[f][c] \in 0..(N * N - 1)

\* A returned mesh whose last face reaches the last vertex N*N - 1.
C2_Witness ==
    /\ mesh_out.returned
    /\ N >= 3
    /\ \E f \in 1..Len(mesh_out.faces) : mesh_out.faces[f][2] = N * N - 1

\* C3: faces are emitted cell by cell, i outer and j inner, both from 0 to N-2;
\* face number 2*(i*(N-1)+j) (counting from 0) is (idx, idx+1, idx+N) and the
\* next one is (idx+1, idx+N+1, idx+N), where idx = i*N + j.
C3_FaceOrder ==
    mesh_out.returned =>
        \A i \in 0..(N - 2) : \A j \in 0..(N - 2) :
            LET idx == i * N + j
                k == 2 * (i * (N - 1) + j)
            IN /\ k + 2 <= Len(mesh_out.faces)
               /\ mesh_out.faces[k + 1] = <<idx, idx + 1, idx + N>>
               /\ mesh_out.faces[k + 2] = <<idx + 1, idx + N + 1, idx + N>>

\* A mesh with several rows of cells: face 2*(1*(N-1)+1) is the first triangle
\* of cell (1, 1).
C3_Witness ==
    /\ mesh_out.returned
    /\ N = 3
    /\ mesh_out.faces[2 * (1 * 2 + 1) + 1] = <<4, 5, 7>>

\* The four corners of grid cell (i, j).
CellCorners(i, j) == {i * N + j, i * N + j + 1, (i + 1) * N + j, (i + 1) * N + j + 1}

\* C4: the mesh is an open grid: every face has three distinct vertices that
\* are corners of one grid cell (i, j) with 0 <= i, j <= N-2, so no face joins
\* the last row or column to the first.
C4_OpenGrid ==
    mesh_out.returned =>
        \A f \in 1..Len(mesh_out.faces) :
            LET face == mesh_out.faces[f]
                used == {face[1], face[2], face[3]}
            IN /\ Cardinality(used) = 3
               /\ \E i \in 0..(N - 2) : \E j \in 0..(N - 2) : used \subseteq CellCorners(i, j)

\* A mesh with a last column and a last row that differ from the first ones.
C4_Witness ==
    /\ mesh_out.returned
    /\ N >= 3
    /\ Len(mesh_out.faces) = 2 * (N - 1) * (N - 1)
    /\ \E f \in 1..Len(mesh_out.faces) : (N - 1) * N + (N - 1) \in
           {mesh_out.faces[f][1], mesh_out.faces[f][2], mesh_out.faces[f][3]}

(***************************************************************************)
(* Claims about Save and objects.json, checked under SpecSave.             *)
(***************************************************************************)
\* All three semi-axes are non-zero.
NonDegenerate(sq) == sq.a1.m # 0 /\ sq.a2.m # 0 /\ sq.a3.m # 0

\* The list as it was when the latest completed save_object ran.
LastSaved == save_log[Len(save_log)].sqs

\* The entry the latest completed save_object put in the file.
LastEntry == objects_json.text.items[Len(objects_json.text.items)]

\* C5: saving with save_object and reloading the saved file with
\* load_superquadrics reproduces, for every non-degenerate superquadric, the
\* same scale, position and rotation, and epsilon1 / epsilon2 rounded to two
\* decimals.
C5_RoundTrip ==
    save_log # << >> =>
        LET kept == SelectSeq(LastSaved, NonDegenerate)
            back == load_superquadrics(objects_json)
        IN /\ back.raised = ""
           /\ Len(back.value) = Len(kept)
           /\ \A k \in 1..Len(kept) :
                /\ \A f \in NumberFields \ {"e1", "e2"} : back.value[k][f] = kept[k][f]
                /\ back.value[k].e1 = round2(kept[k].e1)
                /\ back.value[k].e2 = round2(kept[k].e2)

\* C6: each save_object call adds exactly one entry at the end of the JSON
\* array and leaves the earlier entries as they were, in the same order: whenever
\* the program found the file absent or holding an array, the file holds after n
\* saves the entries found at start followed by the n saved entries in the
\* order they were saved (n entries in all when the file was absent).
C6_SaveAppends ==
    (~initial_json.exists \/ initial_json.text.type = "array") =>
        LET prior == IF initial_json.exists THEN initial_json.text.items ELSE << >>
            added == [k \in 1..Len(save_log) |->
                        json_dump(new_entry(save_log[k].description, save_log[k].sqs))]
        IN /\ Len(save_log) = nsaves
           /\ IF nsaves = 0 THEN objects_json = initial_json
              ELSE /\ objects_json.exists
                   /\ objects_json.text.type = "array"
                   /\ objects_json.text.items = prior \o added
                   /\ Len(objects_json.text.items) = Len(prior) + nsaves

\* Two saves on an absent file, with an edit in between: two different entries.
C6_Witness ==
    /\ ~initial_json.exists
    /\ nsaves = 2
    /\ Len(objects_json.text.items) = 2
    /\ objects_json.text.items[1] # objects_json.text.items[2]

\* C7: the entry save_object writes lists, in the order of self.sqs, exactly
\* the superquadrics whose three semi-axes are all non-zero.
C7_SavedEntryFilter ==
    save_log # << >> =>
        LET kept == SelectSeq(LastSaved, NonDegenerate)
            listed == LastEntry.members["superquadrics"].items
        IN /\ Len(listed) = Len(kept)
           /\ \A k \in 1..Len(kept) : listed[k] = json_dump(sq_data(kept[k]))

\* A save that wrote a component with semi-axes of 1e-200 and left out a
\* component whose panel was edited to a zero semi-axis, besides the first entry
\* of the list.
C7_Witness ==
    /\ save_log # << >>
    /\ Len(LastSaved) = 3
    /\ ~NonDegenerate(LastSaved[2])
    /\ LastSaved[3].a1 = Dec(1, 200)
    /\ Len(LastEntry.members["superquadrics"].items) = 1

\* C8: in every state of the list, the superquadrics visualize_superquadrics
\* skips (a1*a2*a3 != 0 is false) are exactly the ones save_object omits
\* (a1 == 0 or a2 == 0 or a3 == 0).
C8_SameFilter ==
    \A k \in 1..Len(sqs) : (~viz_keeps(sqs[k])) <=> save_skips(sqs[k])

(***************************************************************************)
(* Claims about Visualize and the scene, checked under SpecView.           *)
(***************************************************************************)
\* C9: visualize_superquadrics calls generate_superquadric_mesh only with
\* strictly positive a1, a2 and a3.
C9_PositiveAxes ==
    \A n \in 1..Len(generated) :
        /\ FloatSign(generated[n].sq.a1) = 1
        /\ FloatSign(generated[n].sq.a2) = 1
        /\ FloatSign(generated[n].sq.a3) = 1

\* R * v for the matrix with rows (r11,r12,r13), (r21,r22,r23), (r31,r32,r33).
Rotated(sq, v) ==
    << FMul(ToFixed(sq.r11), v[1]) + FMul(ToFixed(sq.r12), v[2]) + FMul(ToFixed(sq.r13), v[3]),
       FMul(ToFixed(sq.r21), v[1]) + FMul(ToFixed(sq.r22), v[2]) + FMul(ToFixed(sq.r23), v[3]),
       FMul(ToFixed(sq.r31), v[1]) + FMul(ToFixed(sq.r32), v[2]) + FMul(ToFixed(sq.r33), v[3]) >>

\* C10: every vertex v generated for a superquadric is displayed at R*v + t,
\* t = (x, y, z): rotated first, translated second, the translation unrotated.
C10_RotateThenTranslate ==
    /\ Len(scene) = Len(generated)
    /\ \A n \in 1..Len(generated) :
        LET sq == generated[n].sq
            local == generate_superquadric_mesh(sq.a1, sq.a2, sq.a3, sq.e1, sq.e2,
                                                DEFAULT_NUM_POINTS).vertices
            shown == scene[n].vertices
        IN /\ scene[n].name.i = generated[n].i
           /\ Len(shown) = Len(local)
           /\ \A k \in 1..Len(local) :
                LET rv == Rotated(sq, local[k])
                IN shown[k] = <<rv[1] + ToFixed(sq.x), rv[2] + ToFixed(sq.y),
                                rv[3] + ToFixed(sq.z)>>

\* A displayed shape with a quarter turn and a shift, where turning the shift
\* or transposing the matrix would show: a vertex off the x axis of the world.
C10_Witness ==
    /\ Len(scene) >= 1
    /\ generated[1].sq.r12 = Dec(-1, 0)
    /\ generated[1].sq.x = Dec(3, 0)
    /\ \E k \in 1..Len(scene[1].vertices) : scene[1].vertices[k][2] > Scale

(***************************************************************************)
(* Further claims about the generator, checked under SpecMesh.             *)
(***************************************************************************)
\* The point of the surface at the i-th theta sample and the j-th phi sample
\* (both counted from 0), from the three coordinate formulas.
SampleAt(i, j) ==
    LET phi == linspace(-(pi \div 2), pi \div 2, N)[j + 1]
        theta == linspace(-pi, pi, N)[i + 1]
        e1 == Eighths(mesh_args.epsilon1)
        e2 == Eighths(mesh_args.epsilon2)
    IN << FMul(ToFixed(mesh_args.a1), FMul(spow(Cos(phi), e1), spow(Cos(theta), e2))),
          FMul(ToFixed(mesh_args.a2), FMul(spow(Cos(phi), e1), spow(Sin(theta), e2))),
          FMul(ToFixed(mesh_args.a3), spow(Sin(phi), e1)) >>

\* C11: the vertex at flat index i*N + j is the sample at the i-th theta value
\* and the j-th phi value, so the corners idx, idx+1, idx+N, idx+N+1 the faces
\* of cell (i, j) use are the samples at theta indices i, i+1 and phi indices
\* j, j+1.
C11_VertexOrder ==
    mesh_out.returned =>
        /\ \A i \in 0..(N - 1) : \A j \in 0..(N - 1) :
              mesh_out.vertices[i * N + j + 1] = SampleAt(i, j)
        /\ \A i \in 0..(N - 2) : \A j \in 0..(N - 2) :
              LET k == 2 * (i * (N - 1) + j)
                  first == mesh_out.faces[k + 1]
                  second == mesh_out.faces[k + 2]
                  at(c) == mesh_out.vertices[c + 1]
              IN /\ at(first[1]) = SampleAt(i, j)
                 /\ at(first[2]) = SampleAt(i, j + 1)
                 /\ at(first[3]) = SampleAt(i + 1, j)
                 /\ at(second[1]) = SampleAt(i, j + 1)
                 /\ at(second[2]) = SampleAt(i + 1, j + 1)
                 /\ at(second[3]) = SampleAt(i + 1, j)

\* A mesh where the order shows: the vertex at flat index 0*N + 1 is not the
\* sample at theta index 1 and phi index 0, and z changes along a row.
C11_Witness ==
    /\ mesh_out.returned
    /\ N >= 3
    /\ mesh_out.vertices[0 * N + 1 + 1] = SampleAt(0, 1)
    /\ SampleAt(0, 1) # SampleAt(1, 0)
    /\ mesh_out.vertices[1][3] # mesh_out.vertices[2][3]

\* C15: called with resolution 1 or 0, the generator returns without an error
\* a mesh of resolution*resolution vertices and no face.
C15_DegenerateResolution ==
    (mesh_out.returned /\ N < 2) =>
        /\ Len(mesh_out.vertices) = N * N
        /\ mesh_out.faces = << >>

\* Resolution 1 returned the single sample at phi = -pi/2, theta = -pi.
C15_Witness ==
    /\ mesh_out.returned
    /\ N = 1
    /\ mesh_out.vertices = <<SampleAt(0, 0)>>
    /\ mesh_out.faces = << >>

\* The four values the powers of grid point (i, j) are taken of, each with its
\* exponent in eighths.
PowerArguments(i, j) ==
    LET phi == linspace(-(pi \div 2), pi \div 2, N)[j + 1]
        theta == linspace(-pi, pi, N)[i + 1]
        e1 == Eighths(mesh_args.epsilon1)
        e2 == Eighths(mesh_args.epsilon2)
    IN [cos_phi |-> [v |-> Cos(phi), k |-> e1], sin_phi |-> [v |-> Sin(phi), k |-> e1],
        cos_theta |-> [v |-> Cos(theta), k |-> e2], sin_theta |-> [v |-> Sin(theta), k |-> e2]]

\* C17: every power is sign(v) * |v|^e: at every grid point the base handed to
\* the exponentiation is non-negative, each factor is 0 when v is 0 and
\* otherwise never has the sign opposite to v (a power smaller than the
\* fixed-point unit is 0 here), and every coordinate is a number whose sign is
\* the product of the signs of its semi-axis and of its factors.
C17_SignPreservingPower ==
    mesh_out.returned =>
        \A i \in 0..(N - 1) : \A j \in 0..(N - 1) :
            LET p == PowerArguments(i, j)
                vertex == mesh_out.vertices[i * N + j + 1]
                sx == Sign(mesh_args.a1.m) * Sign(p.cos_phi.v) * Sign(p.cos_theta.v)
                sy == Sign(mesh_args.a2.m) * Sign(p.cos_phi.v) * Sign(p.sin_theta.v)
                sz == Sign(mesh_args.a3.m) * Sign(p.sin_phi.v)
            IN /\ \A name \in DOMAIN p :
                    /\ pow_base(p[name].v) >= 0
                    /\ p[name].v = 0 => spow(p[name].v, p[name].k) = 0
                    /\ Sign(spow(p[name].v, p[name].k)) \in {0, Sign(p[name].v)}
               /\ vertex \in Int \X Int \X Int
               /\ Sign(vertex[1]) \in {0, sx}
               /\ Sign(vertex[2]) \in {0, sy}
               /\ Sign(vertex[3]) \in {0, sz}

\* Exponents next to the two ends of the slider range on a grid with negative
\* cosines and sines: a vertex with x < 0, y < 0 and z < 0.
C17_Witness ==
    /\ mesh_out.returned
    /\ N >= 5
    /\ mesh_args.epsilon1 = Dec(125, 3)
    /\ mesh_args.epsilon2 = Dec(1875, 3)
    /\ mesh_args.a1 = Dec(1, 0) /\ mesh_args.a2 = Dec(1, 0) /\ mesh_args.a3 = Dec(1, 0)
    /\ \E k \in 1..Len(mesh_out.vertices) :
          mesh_out.vertices[k][1] < 0 /\ mesh_out.vertices[k][2] < 0
          /\ mesh_out.vertices[k][3] < 0

\* All five shape arguments are 1.0.
UnitSphereArguments ==
    /\ mesh_args.a1 = Dec(1, 0) /\ mesh_args.a2 = Dec(1, 0) /\ mesh_args.a3 = Dec(1, 0)
    /\ mesh_args.epsilon1 = Dec(1, 0) /\ mesh_args.epsilon2 = Dec(1, 0)

\* The tolerance on a norm: one thousandth.
NormTolerance == Scale \div 1000

\* C18: with e1 = e2 = 1 and a1 = a2 = a3 = 1 every vertex has Euclidean norm
\* 1 within the tolerance, for every resolution >= 2.
C18_UnitSphere ==
    (mesh_out.returned /\ UnitSphereArguments /\ N >= 2) =>
        \A k \in 1..Len(mesh_out.vertices) :
            LET v == mesh_out.vertices[k]
                norm2 == v[1] * v[1] + v[2] * v[2] + v[3] * v[3]
            IN /\ norm2 >= (Scale - NormTolerance) * (Scale - NormTolerance)
               /\ norm2 <= (Scale + NormTolerance) * (Scale + NormTolerance)

\* A sphere mesh with a vertex off every coordinate plane.
C18_Witness ==
    /\ mesh_out.returned
    /\ UnitSphereArguments
    /\ N >= 5
    /\ \E k \in 1..Len(mesh_out.vertices) :
          \A c \in 1..3 : Abs(mesh_out.vertices[k][c]) > Scale \div 4

C13_NoSideEffects ==
    [][(~mesh_out.returned /\ mesh_out'.returned) =>
            /\ sqs' = sqs
            /\ scene' = scene
            /\ objects_json' = objects_json]_vars

\* The call has returned in an application that holds loaded superquadrics, a
\* displayed mesh and a saved file.
C13_Witness ==
    /\ mesh_out.returned
    /\ Len(sqs) >= 2
    /\ Len(scene) >= 1
    /\ objects_json.exists
    /\ Len(objects_json.text.items) = 2

(***************************************************************************)
(* Further claims about the application.                                   *)
(***************************************************************************)
\* C14: in every reachable state the exponents e1 and e2 of every superquadric
\* of the list lie in the range 0.1 to 1.9, the loaded ones included.
C14_ExponentRange ==
    \A k \in 1..Len(sqs) : \A f \in {"e1", "e2"} :
        FloatLeq(SLIDER_MIN, sqs[k][f]) /\ FloatLeq(sqs[k][f], SLIDER_MAX)

\* C16: visualize_superquadrics passes no resolution, so every mesh of the
\* scene has the 50 * 50 = 2500 vertices and 2 * 49 * 49 = 4802 faces of the
\* default resolution.
C16_DefaultResolution ==
    \A n \in 1..Len(scene) :
        /\ Len(scene[n].vertices) = 2500
        /\ Len(scene[n].triangles) = 4802

\* A scene with two meshes after Visualize.
C16_Witness ==
    /\ Len(scene) = 2
    /\ Len(generated) = 2
    /\ Len(scene[2].vertices) = 2500
    /\ Len(scene[2].triangles) = 4802

(***************************************************************************)
(* Claims about the settings panel, checked under SpecSettings.            *)
(***************************************************************************)
\* C19: each shader keeps its own material record.  In every step the records
\* of the shaders that are not selected stay as they are, a switch of shader
\* changes no record at all, and the panel shows the base_color and the
\* point_size of the record of the selected shader; so a shader that is left
\* and selected again shows what it had when it was left.
C19_OwnRecordPerShader ==
    [][/\ \A name \in DOMAIN settings._materials :
              name # settings.material =>
                  settings'._materials[name] = settings._materials[name]
       /\ settings'.material # settings.material =>
              settings'._materials = settings._materials
       /\ material_widgets'.color = settings'._materials[settings'.material].base_color
       /\ material_widgets'.point_size =
              settings'._materials[settings'.material].point_size]_vars

\* Lit was given point size 9, Unlit was given the red colour, and Lit has
\* been selected again: the panel shows Lit's grey and its 9.
C19_Witness ==
    /\ last_callback.name = "_on_shader"
    /\ settings.material = LIT
    /\ settings._materials[LIT].point_size = 9
    /\ settings._materials[LIT].base_color = Color(Dec(9, 1), Dec(9, 1), Dec(9, 1))
    /\ settings._materials[UNLIT].base_color = Color(Dec(1, 0), Dec(0, 0), Dec(0, 0))
    /\ settings._materials[UNLIT].point_size = 3
    /\ material_widgets.color = Color(Dec(9, 1), Dec(9, 1), Dec(9, 1))
    /\ material_widgets.point_size = 9

\* C20: apply_material is a one-shot request.  After every completed callback
\* the flag is False; a callback that sets it (shader, prefab, colour, point
\* size) made exactly one update_material call, with the selected record, and
\* a callback that does not set it made none.
C20_ApplyMaterialOneShot ==
    /\ settings.apply_material = FALSE
    /\ last_callback.name \in {"_on_bg_color", "_on_show_skybox", "_on_show_axes",
                                "_on_use_sun"}
          => last_callback.update_material = << >>
    /\ last_callback.name \in {"_on_shader", "_on_material_prefab", "_on_material_color",
                                "_on_point_size"}
          => last_callback.update_material = <<settings._materials[settings.material]>>

\* A background-colour callback that came after a colour edit of the material
\* and made no update_material call.
C20_Witness ==
    /\ last_callback.name = "_on_bg_color"
    /\ last_callback.update_material = << >>
    /\ settings.bg_color = Color(Dec(0, 0), Dec(0, 0), Dec(0, 0))
    /\ settings._materials[LIT].base_color = Color(Dec(1, 0), Dec(0, 0), Dec(0, 0))
    /\ ~settings.apply_material

\* C21: new_ibl_name is cleared after loading.  After every completed callback
\* it is None; the callback of a newly selected environment map made exactly
\* one set_indirect_light call, with the file of a listed map, and every other
\* callback made none, so later settings changes do not load the image again.
C21_IblLoadedOnce ==
    /\ settings.new_ibl_name = None
    /\ last_callback.name = "_on_new_ibl" =>
          /\ Len(last_callback.set_indirect_light) = 1
          /\ last_callback.set_indirect_light[1] \in {resource_file(name) : name \in IblNames}
    /\ last_callback.name \notin {"_on_new_ibl", "__init__"} =>
          last_callback.set_indirect_light = << >>
    /\ last_callback.name = "__init__" =>
          last_callback.set_indirect_light = <<resource_file(DEFAULT_IBL)>>

\* The park map was selected and loaded once.
C21_Witness ==
    /\ last_callback.name = "_on_new_ibl"
    /\ last_callback.set_indirect_light = <<resource_file("park")>>
    /\ settings.new_ibl_name = None
    /\ settings.show_skybox

\* C22: each Add click completes without raising, appends one Superquadric
\* and adds one panel for it, so the number of SQ panels is len(self.sqs) - 1
\* after any sequence of Add clicks.
C22_AddCompletes ==
    /\ raised = ""
    /\ Len(panels) = Len(sqs) - 1

\* C26: if objects.json exists but does not hold a JSON array (text that does
\* not parse, or a JSON object such as {"components": ...}), every save_object
\* raises before the file is opened for writing: the file keeps its content
\* and no entry is added.
C26_SaveOnForeignFile ==
    (initial_json.exists /\ initial_json.text.type # "array") =>
        /\ objects_json = initial_json
        /\ save_log = << >>
        /\ nsaves > 0 => raised \in {"JSONDecodeError", "AttributeError"}

\* Two Save clicks on a {"components": ...} file after the description was typed.
C26_Witness ==
    /\ initial_json = save_sq_json(<<Sphere>>)
    /\ nsaves = 2
    /\ textbox = "chair"
    /\ raised = "AttributeError"
    /\ objects_json = save_sq_json(<<Sphere>>)

(***************************************************************************)
(* Claims about the whole window, checked under SpecWindow.                *)
(***************************************************************************)
\* The name add_geometry gives the mesh of self.sqs[i].
SuperquadricName(i) == [kind |-> "__superquadric__", i |-> i]

\* The names of the geometries of a scene.
GeometryNames(geometries) == {geometries[n].name : n \in 1..Len(geometries)}

\* C23: self.sqs[0] is a placeholder with semi-axes 0 that no panel shows, so
\* it is never edited: in every state it is still the fresh Superquadric, no
\* geometry is named __superquadric__0, no saved entry contains it (each entry
\* lists the non-degenerate members of the rest of the list only), and panel
\* SQp shows list index p, which holds a loaded component.
C23_Placeholder ==
    /\ sqs[1] = Superquadric
    /\ ~NonDegenerate(sqs[1])
    /\ \A p \in 1..Len(panels) :
          /\ panels[p].label = p
          /\ panels[p].sq = p
          /\ panels[p].sq + 1 \in 2..Len(sqs)
          /\ sqs[panels[p].sq + 1].e_widget = "NumberEdit"
    /\ SuperquadricName(0) \notin GeometryNames(scene)
    /\ objects_json.exists =>
          \A k \in 1..Len(objects_json.text.items) :
              LET listed == objects_json.text.items[k].members["superquadrics"].items
                  rest == SelectSeq(Tail(save_log[k].sqs), NonDegenerate)
              IN /\ \A n \in 1..Len(listed) : listed[n] # json_dump(sq_data(Superquadric))
                 /\ listed = [n \in 1..Len(rest) |-> json_dump(sq_data(rest[n]))]

\* Two loaded components, one of them edited, then displayed and saved.
C23_Witness ==
    /\ Len(sqs) = 3
    /\ nedits = 1
    /\ save_log # << >>
    /\ save_log[Len(save_log)].sqs = sqs
    /\ SuperquadricName(1) \in GeometryNames(scene)
    /\ SuperquadricName(2) \in GeometryNames(scene)

\* C24: after visualize_superquadrics returns, the geometries of the scene are
\* exactly the __superquadric__i of the list members with three non-zero
\* semi-axes, whatever the scene held before; and on a scene that
\* visualize_superquadrics made of the present list it changes nothing.
C24_SceneAfterVisualize ==
    [][visualize_superquadrics =>
          LET expected == {SuperquadricName(i) : i \in
                              {j \in 0..(Len(sqs) - 1) : NonDegenerate(sqs[j + 1])}}
          IN /\ GeometryNames(scene') = expected
             /\ Len(scene') = Cardinality(expected)
             /\ (GeometryNames(scene) = expected /\ generated = viz_calls(sqs, 0))
                    => GeometryNames(scene') = GeometryNames(scene)]_vars

\* C25 as stated: after load returns the scene holds exactly one geometry
\* named __model__ when the file was read and no geometry when reading failed.
C25_LoadOutcome ==
    last_load # NoLoad =>
        IF last_load.contents = "unreadable"
        THEN scene = << >>
        ELSE Len(scene) = 1 /\ scene[1].name.kind = "__model__"

\* C25, amended: load clears the scene before it knows whether anything was
\* read.  After it returns nothing of the previous scene is left; the scene
\* holds exactly one geometry, named __model__, when the file was read and
\* adding it raised no exception, and no geometry at all when reading failed
\* or when the add raised (the except branch only prints the exception).
C25_LoadOutcomeAmended ==
    last_load # NoLoad =>
        IF last_load.contents = "unreadable" \/ last_load.add_raises
        THEN scene = << >>
        ELSE scene = <<model_geometry(last_load.contents)>>

\* Visualize displayed a superquadric and a later load that read nothing
\* emptied the scene.
C25_Witness ==
    /\ Len(generated) >= 1
    /\ last_load.contents = "unreadable"
    /\ scene = << >>

====
